---- MODULE Spec2Model ----
(***************************************************************************)
(* pySCENIC, src/pyscenic/regulome.py: module2regulome (one ranking        *)
(* database and one co-expression module -> a Regulome or None) and        *)
(* derive_regulomes (the dask graph over the cross product of databases    *)
(* and modules).                                                           *)
(*                                                                         *)
(* Numbers.  The code computes in floating point.  The model computes the  *)
(* same expressions exactly: a number is a record                          *)
(*     [nan, num, den, rad]   meaning   (num / den) / sqrt(rad)            *)
(* with den > 0 and rad > 0, or NaN.  Rounding is not modelled.            *)
(***************************************************************************)
EXTENDS Integers, Sequences, FiniteSets, Bags, TLC

\* ------------------------------------------------------------------ bounds

\* rank_threshold of the calls (the code's default is 1500).
RankThreshold == 3
\* multiprocessing.cpu_count() of the host.
CpuCount == 2
\* The largest num_workers a caller passes.
MaxWorkers == 2

\* ------------------------------------------------------------- arithmetic

RECURSIVE SumSeq(_)
SumSeq(s) == IF s = <<>> THEN 0 ELSE Head(s) + SumSeq(Tail(s))

Sq(x) == x * x

RECURSIVE SumSq(_)
SumSq(s) == IF s = <<>> THEN 0 ELSE Sq(Head(s)) + SumSq(Tail(s))

Abs(x) == IF x < 0 THEN -x ELSE x

RECURSIVE Gcd(_, _)
Gcd(a, b) == IF b = 0 THEN a ELSE Gcd(b, a % b)

NaN == [nan |-> TRUE, num |-> 0, den |-> 1, rad |-> 1]

\* The number n / d (d > 0), in lowest terms.
Rat(n, d) ==
    LET g == Gcd(Abs(n), d)
    IN  [nan |-> FALSE, num |-> n \div g, den |-> d \div g, rad |-> 1]

isnan(x) == x.nan

\* x * y; NaN if either is.
FMul(x, y) ==
    IF x.nan \/ y.nan THEN NaN
    ELSE LET n == x.num * y.num
             d == x.den * y.den
             g == Gcd(Abs(n), d)
         IN  [nan |-> FALSE, num |-> n \div g, den |-> d \div g,
              rad |-> x.rad * y.rad]

\* x >= y as IEEE comparison: FALSE when either is NaN.
FGe(x, y) ==
    /\ ~x.nan
    /\ ~y.nan
    /\ LET a == x.num * y.den
           b == y.num * x.den
       IN  \* a / sqrt(x.rad) >= b / sqrt(y.rad)
           IF a >= 0 /\ b >= 0 THEN Sq(a) * y.rad >= Sq(b) * x.rad
           ELSE IF a >= 0 THEN TRUE
           ELSE IF b >= 0 THEN FALSE
           ELSE Sq(a) * y.rad <= Sq(b) * x.rad

\* max(x, y) of Python: y only if y > x.
FMax(x, y) == IF FGe(x, y) THEN x ELSE y

\* ------------------------------------------- collaborators of regulome.py
\* (rnkdb.py, genesig.py, recovery.py and pandas are not part of the
\* source under study; these follow their documented interfaces)

\* Regulome.__getitem__: the weight of a gene.
GetItem(module, gene) == module.gene2weights[gene]

\* Regulome.noweights(): the same signature with every weight 1.
noweights(module) ==
    [module EXCEPT !.gene2weights = [g \in DOMAIN module.gene2weights |-> 1]]

\* RankingDatabase.load(module): rows = features, columns = the module's
\* genes in the database's column order, cells = rank positions (0-based).
load(db, module) ==
    LET InModule(g) == g \in DOMAIN module.gene2weights
        columns == SelectSeq(db.genes, InModule)
    IN  [index   |-> db.features,
         columns |-> columns,
         values  |-> [i \in 1..Len(db.features) |->
                        [j \in 1..Len(columns) |-> db.ranks[i][columns[j]]]]]

\* int(round(auc_threshold * total_genes)), auc_threshold = <<n, d>>.
RankCutoff(auc_threshold, total_genes) ==
    (2 * auc_threshold[1] * total_genes + auc_threshold[2])
        \div (2 * auc_threshold[2])

Min(a, b) == IF a <= b THEN a ELSE b

\* recovery(): per feature row, the recovery curve over depths
\* 0 .. rank_threshold-1 (the summed weight of the genes ranked at or above
\* the depth) and the area under its first rank_cutoff points.  The AUC is
\* kept as that sum: the kernel's division by the constant maximal area is
\* the same for every feature and cancels in the NES.
recovery(df, total_genes, weights, rank_threshold, auc_threshold) ==
    LET Curve(row) ==
            [d \in 1..rank_threshold |->
                SumSeq([j \in 1..Len(row) |->
                          IF row[j] <= d - 1 THEN weights[j] ELSE 0])]
        rccs == [i \in 1..Len(df.values) |-> Curve(df.values[i])]
        cut  == Min(RankCutoff(auc_threshold, total_genes), rank_threshold)
        Auc(rcc) == SumSeq(SubSeq(rcc, 1, cut))
    IN  [rccs |-> rccs, aucs |-> [i \in 1..Len(rccs) |-> Auc(rccs[i])]]

\* leading_edge(): an opaque kernel.  Its value is kept as the application
\* to its arguments, so two calls agree exactly when their arguments do.
leading_edge(rcc, avg2stdrcc, ranking, genes, module) ==
    [rcc |-> rcc, avg2stdrcc |-> avg2stdrcc, ranking |-> ranking,
     genes |-> genes, weights |-> module.gene2weights]

\* Regulome(...): the constructor.  gene2weights holds the kernel outputs
\* the regulome was built from.
Regulome(name, score, nomenclature, context, transcription_factor, g2w) ==
    [kind |-> "Regulome", name |-> name, score |-> score,
     nomenclature |-> nomenclature, context |-> context,
     transcription_factor |-> transcription_factor, gene2weights |-> g2w]

\* Regulome.union: gene sets and contexts merge, the score is the larger.
union(a, b) ==
    Regulome(a.name, FMax(a.score, b.score), a.nomenclature,
             a.context \cup b.context, a.transcription_factor,
             a.gene2weights \cup b.gene2weights)

\* pandas.merge(left, right, how="inner", left_index=True,
\* right_index=True): every pair of a left and a right row with the same
\* (gene_name, #motif_id) key, in the order of the left keys.
RECURSIVE merge(_, _)
merge(left, right) ==
    IF left = <<>> THEN <<>>
    ELSE LET l == Head(left)
             Match(r) == r.gene_name = l.gene_name /\ r.motif_id = l.motif_id
             Join(r) == [gene_name |-> l.gene_name, motif_id |-> l.motif_id,
                         NES |-> l.NES, AUC |-> l.AUC,
                         MotifSimilarityQvalue |-> r.MotifSimilarityQvalue,
                         OrthologousIdentity |-> r.OrthologousIdentity]
             matches == SelectSeq(right, Match)
         IN  [k \in 1..Len(matches) |-> Join(matches[k])]
                 \o merge(Tail(left), right)

\* math.log of a q-value.  A q-value is NaN, zero, or e^-k for a
\* natural number k, written [kind |-> "exp", k |-> k].
QNaN == [kind |-> "nan", k |-> 0]
QZero == [kind |-> "zero", k |-> 0]
QExp(k) == [kind |-> "exp", k |-> k]
log(q) == Rat(-q.k, 1)

\* ------------------------------------------------------ module2regulome

None == [kind |-> "None"]
Raised(error) == [kind |-> "raised", error |-> error]

\* line 48: ness = (aucs - aucs.mean()) / aucs.std().  With n values of sum
\* S, (a - S/n) / sqrt(sum(a^2)/n - (S/n)^2) = (n*a - S) / sqrt(n*sum(a^2)
\* - S^2); numpy gives 0/0 = NaN when the standard deviation is zero.
Ness(aucs) ==
    LET n   == Len(aucs)
        S   == SumSeq(aucs)
        rad == n * SumSq(aucs) - Sq(S)
    IN  [i \in 1..n |->
            IF rad = 0 THEN NaN
            ELSE [nan |-> FALSE, num |-> n * aucs[i] - S, den |-> 1,
                  rad |-> rad]]

\* A variant that keeps every feature whose NES is defined.
EnrichedFeaturesIdx_AnyDefined(ness, nes_threshold) ==
    [i \in 1..Len(ness) |-> ~ness[i].nan]

\* line 51: the boolean mask of the enriched features.
EnrichedFeaturesIdx(ness, nes_threshold) ==
    [i \in 1..Len(ness) |-> FGe(ness[i], nes_threshold)]

\* a[mask]: the positions a boolean mask selects, in order.
RECURSIVE MaskIdx(_, _)
MaskIdx(mask, i) ==
    IF i > Len(mask) THEN <<>>
    ELSE (IF mask[i] THEN <<i>> ELSE <<>>) \o MaskIdx(mask, i + 1)

\* lines 52-56: the enriched features as a frame indexed by
\* (transcription factor, feature).
EnrichedFeatures(module, features, ness, aucs, idx) ==
    [k \in 1..Len(idx) |->
        [gene_name |-> module.transcription_factor,
         motif_id  |-> features[idx[k]],
         NES       |-> ness[idx[k]],
         AUC       |-> aucs[idx[k]]]]

\* lines 57 and 62: len(frame) == 0.
NoEnriched(enriched_features) == Len(enriched_features) = 0
\* A variant without the check of line 62.
NoAnnotated_Unchecked(annotated_features) == FALSE
NoAnnotated(annotated_features) == Len(annotated_features) = 0

\* x.mean(axis=0) and x.std(axis=0) of the values xs along the reduced
\* axis: the mean is sum / k, the deviation sqrt(rad) / k.
Mean(xs) == [sum |-> SumSeq(xs), k |-> Len(xs)]
Std(xs)  == [rad |-> Len(xs) * SumSq(xs) - Sq(SumSeq(xs)),
             k |-> Len(xs)]
\* avg + 2.0 * std, as (sum + 2 * sqrt(rad)) / k.
AddTwoStd(avg, std) == [sum |-> avg.sum, rad |-> std.rad, k |-> avg.k]

\* int(n_features * avgrcc_sample_frac), the fraction being <<n, d>>.
SampleHigh(n_features, avgrcc_sample_frac) ==
    (n_features * avgrcc_sample_frac[1]) \div avgrcc_sample_frac[2]

\* lines 66-73: the baseline curve.  Without a sample fraction the matrix
\* is reduced over its rows, one value per depth.  With one,
\* np.random.randint(0, high) is a single integer, rccs[sample_idx, :] is
\* that one row as a vector, and reducing the vector along its only axis
\* leaves one number.
NoFrac == <<0, 0>>
Avg2StdRcc(rccs, avgrcc_sample_frac, sample_idx, rank_threshold) ==
    IF avgrcc_sample_frac = NoFrac
    THEN LET Column(d) == [i \in 1..Len(rccs) |-> rccs[i][d]]
         IN  [shape |-> "curve", rows |-> 1..Len(rccs),
              v |-> [d \in 1..rank_threshold |->
                        AddTwoStd(Mean(Column(d)), Std(Column(d)))]]
    ELSE LET row == rccs[sample_idx + 1]
         IN  [shape |-> "scalar", rows |-> {sample_idx + 1},
              v |-> <<AddTwoStd(Mean(row), Std(row))>>]

MAX_VALUE == 100

\* A variant that does not divide by MAX_VALUE.
score_Unscaled(nes, motif_similarity_qval, orthologuous_identity) ==
    LET s == IF motif_similarity_qval.kind # "nan"
                /\ motif_similarity_qval.kind # "zero"
             THEN FMul(nes, FMul(Rat(-1, 1), log(motif_similarity_qval)))
             ELSE nes
    IN  IF isnan(orthologuous_identity) THEN s
        ELSE FMul(s, orthologuous_identity)

\* lines 76-79.
score(nes, motif_similarity_qval, orthologuous_identity) ==
    LET s == IF motif_similarity_qval.kind # "nan"
                /\ motif_similarity_qval.kind # "zero"
             THEN FMul(FMul(nes, FMul(Rat(-1, 1), log(motif_similarity_qval))),
                       Rat(1, MAX_VALUE))
             ELSE nes
    IN  IF isnan(orthologuous_identity) THEN s
        ELSE FMul(s, orthologuous_identity)

\* line 82.
ModuleUsed(module, weighted_recovery) ==
    IF weighted_recovery THEN module ELSE noweights(module)

\* line 83: zip(annotated_features.iterrows(), rccs[idx, :],
\* rankings[idx, :]) pairs the k-th row of the join with the k-th enriched
\* feature and stops at the shorter of the two.
Zip(annotated_features, idx) ==
    [k \in 1..Min(Len(annotated_features), Len(idx)) |->
        [row |-> annotated_features[k], feature_idx |-> idx[k]]]

\* line 94: reduce(Regulome.union, regulomes); reduce() of an empty
\* sequence raises TypeError.
RECURSIVE Fold(_, _)
Fold(acc, rs) == IF rs = <<>> THEN acc ELSE Fold(union(acc, Head(rs)), Tail(rs))
reduce(regulomes) ==
    IF regulomes = <<>> THEN Raised("TypeError")
    ELSE Fold(Head(regulomes), Tail(regulomes))

\* What one call did: its return value (or the error it raised) and the
\* locals the stages produced.
Frame(ret, rccs, aucs, ness, idx, annotated, avg2stdrcc, zipped, regulomes) ==
    [ret |-> ret, rccs |-> rccs, aucs |-> aucs, ness |-> ness,
     enriched_idx |-> idx, annotated_features |-> annotated,
     avg2stdrcc |-> avg2stdrcc, zipped |-> zipped, regulomes |-> regulomes]

NoBaseline == [shape |-> "none", rows |-> {}, v |-> <<>>]

\* lines 41-94.  sample_idx is the value np.random.randint returns when
\* it is called.
module2regulome(db, module, motif_annotations, rank_threshold, auc_threshold, nes_threshold, avgrcc_sample_frac, weighted_recovery, sample_idx) ==
    LET df       == load(db, module)
        features == df.index
        genes    == df.columns
        rankings == df.values
        weights  == [j \in 1..Len(genes) |-> GetItem(module, genes[j])]
        rec      == recovery(df, db.total_genes, weights, rank_threshold,
                             auc_threshold)
        rccs     == rec.rccs
        aucs     == rec.aucs
        ness     == Ness(aucs)
        idx      == MaskIdx(EnrichedFeaturesIdx(ness, nes_threshold), 1)
        enriched_features == EnrichedFeatures(module, features, ness, aucs, idx)
        annotated_features == merge(enriched_features, motif_annotations)
        avg2stdrcc == Avg2StdRcc(rccs, avgrcc_sample_frac, sample_idx,
                                 rank_threshold)
        _module  == ModuleUsed(module, weighted_recovery)
        zipped   == Zip(annotated_features, idx)
        Build(z) == Regulome(module.name,
                             score(z.row.NES, z.row.MotifSimilarityQvalue,
                                   z.row.OrthologousIdentity),
                             module.nomenclature,
                             module.context \cup {db.name},
                             module.transcription_factor,
                             {leading_edge(rccs[z.feature_idx], avg2stdrcc,
                                           rankings[z.feature_idx], genes,
                                           _module)})
        regulomes == [k \in 1..Len(zipped) |-> Build(zipped[k])]
    IN  IF NoEnriched(enriched_features)
        THEN Frame(None, rccs, aucs, ness, idx, <<>>, NoBaseline, <<>>, <<>>)
        ELSE IF NoAnnotated(annotated_features)
        THEN Frame(None, rccs, aucs, ness, idx, annotated_features,
                   NoBaseline, <<>>, <<>>)
        ELSE IF avgrcc_sample_frac # NoFrac
                /\ SampleHigh(Len(features), avgrcc_sample_frac) <= 0
        THEN Frame(Raised("ValueError"), rccs, aucs, ness, idx,
                   annotated_features, NoBaseline, <<>>, <<>>)
        ELSE Frame(reduce(regulomes), rccs, aucs, ness, idx,
                   annotated_features, avg2stdrcc, zipped, regulomes)

\* ----------------------------------------------------- derive_regulomes

\* line 25: the default of module2regulome's weighted_recovery parameter.
DefaultWeightedRecovery == FALSE

\* lines 127-129: one delayed module2regulome call per (db, gs), for db in
\* rnkdbs for gs in modules, with the seven positional arguments of line
\* 128; the eighth parameter, weighted_recovery, keeps its default.
DelayedCalls(dbs, mods, rank_threshold, auc_threshold, nes_thr, frac, wr) ==
    [k \in 1..(Len(dbs) * Len(mods)) |->
        [db |-> ((k - 1) \div Len(mods)) + 1,
         gs |-> ((k - 1) % Len(mods)) + 1,
         rank_threshold |-> rank_threshold,
         auc_threshold |-> auc_threshold,
         nes_threshold |-> nes_thr,
         avgrcc_sample_frac |-> frac,
         weighted_recovery |-> DefaultWeightedRecovery]]

\* line 125.
not_none(r) == r # None

\* line 126: compose(list, partial(filter, function=not_none)) applied to
\* the task results calls filter(results, function=not_none).  The builtin
\* filter takes no keyword arguments and raises TypeError ("filter() takes
\* no keyword arguments") for any call that passes one.
FilterKeywords == {"function"}
ComposeListFilter(results) ==
    IF FilterKeywords # {} THEN Raised("TypeError")
    ELSE [kind |-> "returned", value |-> SelectSeq(results, not_none)]

\* line 130: num_workers if num_workers else multiprocessing.cpu_count();
\* None is written 0, which Python also takes for false.
NumWorkers(num_workers) == IF num_workers # 0 THEN num_workers ELSE CpuCount

\* ----------------------------------------------------------------- inputs

AucThreshold == <<1, 2>>

Db1 == [name |-> "db1", total_genes |-> 4, genes |-> <<"g1", "g2">>,
        features |-> <<"f1", "f2", "f3", "f4">>,
        ranks |-> << [g1 |-> 0, g2 |-> 3], [g1 |-> 3, g2 |-> 0],
                     [g1 |-> 2, g2 |-> 3], [g1 |-> 3, g2 |-> 2] >>]
Db2 == [name |-> "db2", total_genes |-> 4, genes |-> <<"g1", "g2">>,
        features |-> <<"f1", "f2", "f3">>,
        ranks |-> << [g1 |-> 0, g2 |-> 1], [g1 |-> 2, g2 |-> 3],
                     [g1 |-> 3, g2 |-> 2] >>]
\* Both features recover the unit-weight module equally: zero AUC variance.
DbFlat == [name |-> "dbFlat", total_genes |-> 4, genes |-> <<"g1", "g2">>,
           features |-> <<"f1", "f2">>,
           ranks |-> << [g1 |-> 0, g2 |-> 1], [g1 |-> 1, g2 |-> 0] >>]
\* A database whose rank table has no feature rows.
DbEmpty == [name |-> "dbEmpty", total_genes |-> 4, genes |-> <<"g1", "g2">>,
            features |-> <<>>, ranks |-> <<>>]
Databases == {Db1, Db2, DbFlat, DbEmpty}

Signature(name, tf, g2w) ==
    [kind |-> "Regulome", name |-> name, score |-> Rat(0, 1),
     nomenclature |-> "HGNC", context |-> {"coexpression"},
     transcription_factor |-> tf, gene2weights |-> g2w]
ModU == Signature("m1", "TF1", [g1 |-> 1, g2 |-> 1])
\* ModU with other weights.
ModW == Signature("m1", "TF1", [g1 |-> 1, g2 |-> 3])
ModB == Signature("m2", "TF2", [g1 |-> 2])
Modules == {ModU, ModW, ModB}

Annotation(tf, feature, q, o) ==
    [gene_name |-> tf, motif_id |-> feature, MotifSimilarityQvalue |-> q,
     OrthologousIdentity |-> o]
QValues == {QNaN, QZero, QExp(0), QExp(1), QExp(2)}
Identities == {NaN, Rat(1, 2), Rat(1, 1)}
\* Every enriched feature annotated once.
AnnFull(q, o) == << Annotation("TF1", "f1", q, o),
                    Annotation("TF1", "f2", QExp(1), Rat(1, 2)),
                    Annotation("TF1", "f3", QZero, NaN),
                    Annotation("TF2", "f1", QNaN, NaN) >>
\* No annotation for f1.
AnnPartial(q, o) == << Annotation("TF1", "f2", q, o),
                       Annotation("TF3", "f1", QZero, NaN) >>
\* Two annotations for f1.
AnnDup(q, o) == << Annotation("TF1", "f1", q, o),
                   Annotation("TF1", "f1", QExp(2), NaN),
                   Annotation("TF1", "f2", QNaN, Rat(1, 2)) >>
AnnotationTables(qs, os) ==
    {<<>>} \cup UNION {{AnnFull(q, o), AnnPartial(q, o), AnnDup(q, o)} :
                        q \in qs, o \in os}

NoFrame == Frame(None, <<>>, <<>>, <<>>, <<>>, <<>>, NoBaseline, <<>>, <<>>)
NoOutcome == [kind |-> "none"]

\* ------------------------------------------------------------------ state

VARIABLES
    entry,               \* the function the caller calls
    rnkdbs, modules,     \* the caller's arguments
    motif_annotations,   \* the annotation table (line 123's return value)
    nes_threshold, avgrcc_sample_frac, weighted_recovery, num_workers,
    pc,                  \* "start" | "compute" | "returned" | "raised"
    tasks,               \* the delayed calls: arguments, status, frame
    outcome,             \* what the entry function returned or raised
    frame                \* the frame of a direct module2regulome call

vars == <<entry, rnkdbs, modules, motif_annotations, nes_threshold,
          avgrcc_sample_frac, weighted_recovery, num_workers, pc, tasks,
          outcome, frame>>

inputs == <<entry, rnkdbs, modules, motif_annotations, nes_threshold,
            avgrcc_sample_frac, weighted_recovery, num_workers>>

InitBatch ==
    /\ entry = "derive_regulomes"
    /\ rnkdbs \in {<<Db1, Db2>>, <<Db1, DbFlat>>, <<DbEmpty, Db1>>, <<Db2>>}
    /\ modules \in {<<ModU, ModW>>, <<ModU, ModB>>, <<ModB, ModW, ModU>>}
    /\ motif_annotations \in AnnotationTables({QExp(1)}, {Rat(1, 2)})
    /\ nes_threshold = Rat(1, 1)
    /\ avgrcc_sample_frac \in {NoFrac, <<1, 2>>, <<1, 4>>}
    /\ weighted_recovery \in BOOLEAN
    /\ num_workers \in 0..MaxWorkers

InitCall ==
    /\ entry = "module2regulome"
    /\ \E db \in Databases : rnkdbs = <<db>>
    /\ \E m \in Modules : modules = <<m>>
    /\ motif_annotations \in AnnotationTables(QValues, Identities)
    /\ nes_threshold \in {Rat(-1, 1), Rat(1, 1), Rat(3, 1)}
    /\ avgrcc_sample_frac \in {NoFrac, <<1, 2>>, <<1, 4>>, <<1, 1>>}
    /\ weighted_recovery \in BOOLEAN
    /\ num_workers = 0

Init ==
    /\ InitBatch \/ InitCall
    /\ pc = "start"
    /\ tasks = <<>>
    /\ outcome = NoOutcome
    /\ frame = NoFrame

\* The values np.random.randint(0, high) can return; 0 stands in when the
\* call is not reached or raises.
Randint(db, frac) ==
    IF frac = NoFrac \/ SampleHigh(Len(db.features), frac) <= 0 THEN {0}
    ELSE 0..(SampleHigh(Len(db.features), frac) - 1)

\* module2regulome called directly, lines 23-94.
CallModule2Regulome ==
    /\ entry = "module2regulome"
    /\ pc = "start"
    /\ \E sample_idx \in Randint(rnkdbs[1], avgrcc_sample_frac) :
         frame' = module2regulome(rnkdbs[1], modules[1], motif_annotations,
                                  RankThreshold, AucThreshold, nes_threshold,
                                  avgrcc_sample_frac, weighted_recovery,
                                  sample_idx)
    /\ outcome' = frame'.ret
    /\ pc' = IF frame'.ret.kind = "raised" THEN "raised" ELSE "returned"
    /\ UNCHANGED <<inputs, tasks>>

\* derive_regulomes, lines 123-129: the task graph.
BuildGraph ==
    /\ entry = "derive_regulomes"
    /\ pc = "start"
    /\ tasks' = [k \in DOMAIN DelayedCalls(rnkdbs, modules, RankThreshold,
                        AucThreshold, nes_threshold, avgrcc_sample_frac,
                        weighted_recovery) |->
                    [call |-> DelayedCalls(rnkdbs, modules, RankThreshold,
                        AucThreshold, nes_threshold, avgrcc_sample_frac,
                        weighted_recovery)[k],
                     status |-> "pending", frame |-> NoFrame]]
    /\ pc' = "compute"
    /\ UNCHANGED <<inputs, outcome, frame>>

Running == {k \in DOMAIN tasks : tasks[k].status = "running"}
Failed == {k \in DOMAIN tasks : tasks[k].status = "done"
                                /\ tasks[k].frame.ret.kind = "raised"}

\* line 130, the scheduler: a free worker of the pool takes a pending task.
StartTask(k) ==
    /\ pc = "compute"
    /\ tasks[k].status = "pending"
    /\ Cardinality(Running) < NumWorkers(num_workers)
    /\ tasks' = [tasks EXCEPT ![k].status = "running"]
    /\ UNCHANGED <<inputs, pc, outcome, frame>>

\* A worker runs the delayed module2regulome call to its end.
FinishTask(k) ==
    /\ pc = "compute"
    /\ tasks[k].status = "running"
    /\ LET c == tasks[k].call
       IN  \E sample_idx \in Randint(rnkdbs[c.db], c.avgrcc_sample_frac) :
             tasks' = [tasks EXCEPT
                 ![k].status = "done",
                 ![k].frame = module2regulome(rnkdbs[c.db], modules[c.gs],
                     motif_annotations, c.rank_threshold, c.auc_threshold,
                     c.nes_threshold, c.avgrcc_sample_frac,
                     c.weighted_recovery, sample_idx)]
    /\ UNCHANGED <<inputs, pc, outcome, frame>>

\* A task raised: compute() raises its error to the caller.
TaskError(k) ==
    /\ pc = "compute"
    /\ k \in Failed
    /\ outcome' = tasks[k].frame.ret
    /\ pc' = "raised"
    /\ UNCHANGED <<inputs, tasks, frame>>

\* Every task returned: the final node of the graph runs on their results.
Collect ==
    /\ pc = "compute"
    /\ \A k \in DOMAIN tasks : tasks[k].status = "done"
    /\ Failed = {}
    /\ outcome' = ComposeListFilter([k \in DOMAIN tasks |-> tasks[k].frame.ret])
    /\ pc' = IF outcome'.kind = "raised" THEN "raised" ELSE "returned"
    /\ UNCHANGED <<inputs, tasks, frame>>

Next ==
    \/ CallModule2Regulome
    \/ BuildGraph
    \/ \E k \in DOMAIN tasks : StartTask(k)
    \/ \E k \in DOMAIN tasks : FinishTask(k)
    \/ \E k \in DOMAIN tasks : TaskError(k)
    \/ Collect

Spec == Init /\ [][Next]_vars

\* ------------------------------------------------------------- properties

\* The module2regulome calls that have ended, each with its arguments and
\* its frame.
CallOf(db, module, nes_thr, frac, wr, fr) ==
    [db |-> db, module |-> module, nes_threshold |-> nes_thr,
     avgrcc_sample_frac |-> frac, weighted_recovery |-> wr, frame |-> fr]
FinishedCalls ==
    {CallOf(rnkdbs[tasks[k].call.db], modules[tasks[k].call.gs],
            tasks[k].call.nes_threshold, tasks[k].call.avgrcc_sample_frac,
            tasks[k].call.weighted_recovery, tasks[k].frame) :
        k \in {j \in DOMAIN tasks : tasks[j].status = "done"}}
    \cup (IF entry = "module2regulome" /\ pc # "start"
          THEN {CallOf(rnkdbs[1], modules[1], nes_threshold,
                       avgrcc_sample_frac, weighted_recovery, frame)}
          ELSE {})

\* The features of a call with NES >= nes_threshold.
AboveThreshold(c) ==
    {i \in DOMAIN c.frame.ness : FGe(c.frame.ness[i], c.nes_threshold)}
\* Whether some feature above the threshold has an annotation row.
JoinNonEmpty(c) ==
    \E i \in AboveThreshold(c) : \E r \in DOMAIN motif_annotations :
        /\ motif_annotations[r].gene_name = c.module.transcription_factor
        /\ motif_annotations[r].motif_id = c.db.features[i]

\* C3: module2regulome returns None whenever no feature has NES >=
\* nes_threshold or the annotation join is empty; a Regulome it returns is
\* the union of at least one per-feature Regulome.
C3_NoneOrNonEmptyUnion ==
    \A c \in FinishedCalls :
        /\ (AboveThreshold(c) = {} \/ ~JoinNonEmpty(c)) => c.frame.ret = None
        /\ c.frame.ret.kind = "Regulome" =>
              /\ Len(c.frame.regulomes) >= 1
              /\ c.frame.ret.gene2weights # {}
              /\ c.frame.ret.gene2weights =
                    UNION {c.frame.regulomes[k].gene2weights :
                              k \in DOMAIN c.frame.regulomes}
\* Enriched features, none of them annotated, and None returned.
C3_Witness ==
    \E c \in FinishedCalls :
        AboveThreshold(c) # {} /\ ~JoinNonEmpty(c) /\ c.frame.ret = None

\* C4: every row of the annotation join, and every recovery curve and rank
\* row paired with it, belongs to a feature with NES >= nes_threshold.
C4_OnlyEnrichedScored ==
    \A c \in FinishedCalls : \A k \in DOMAIN c.frame.zipped :
        LET z == c.frame.zipped[k]
        IN  /\ FGe(z.row.NES, c.nes_threshold)
            /\ z.feature_idx \in AboveThreshold(c)
            /\ \E i \in AboveThreshold(c) :
                   c.db.features[i] = z.row.motif_id
\* A call that scored a feature while another feature was below threshold.
C4_Witness ==
    \E c \in FinishedCalls :
        /\ c.frame.zipped # <<>>
        /\ AboveThreshold(c) # DOMAIN c.frame.ness

\* x = y as numbers (NaN equals nothing).
FEq(x, y) == FGe(x, y) /\ FGe(y, x)

\* x * n / d for a number x and integers n, d > 0.
Scaled(x, n, d) ==
    [nan |-> x.nan, num |-> x.num * n, den |-> x.den * d, rad |-> x.rad]
\* The score the rule of the claim gives a row of the join.
C5Expected(row) ==
    LET q == row.MotifSimilarityQvalue
        o == row.OrthologousIdentity
        base == IF q = QNaN \/ q = QZero THEN row.NES
                ELSE Scaled(row.NES, q.k, 100)
    IN  IF o.nan THEN base ELSE Scaled(base, o.num, o.den)
\* C5: the score is NES when the q-value is NaN or zero and
\* NES * -ln(q) / 100 otherwise, times the orthologous identity exactly
\* when that is defined; q = 0 or NaN with no identity gives NES, and
\* q = e^-1 with identity 0.5 gives NES * 0.01 * 0.5.
C5_ScoreRule ==
    \A c \in FinishedCalls : \A k \in DOMAIN c.frame.regulomes :
        LET row == c.frame.zipped[k].row
            s   == c.frame.regulomes[k].score
        IN  /\ FEq(s, C5Expected(row))
            /\ (row.MotifSimilarityQvalue \in {QNaN, QZero}
                /\ row.OrthologousIdentity = NaN) => FEq(s, row.NES)
            /\ (row.MotifSimilarityQvalue = QExp(1)
                /\ row.OrthologousIdentity = Rat(1, 2)) =>
                   FEq(s, Scaled(row.NES, 1, 200))
\* A row with q = e^-1 and identity 0.5 was scored, NES not zero.
C5_Witness ==
    \E c \in FinishedCalls : \E k \in DOMAIN c.frame.regulomes :
        /\ c.frame.zipped[k].row.MotifSimilarityQvalue = QExp(1)
        /\ c.frame.zipped[k].row.OrthologousIdentity = Rat(1, 2)
        /\ c.frame.zipped[k].row.NES.num # 0

\* Every task of the batch has returned, none has raised, and compute()
\* has ended.
BatchEnded ==
    /\ entry = "derive_regulomes"
    /\ pc \in {"returned", "raised"}
    /\ \A k \in DOMAIN tasks : tasks[k].status = "done"
    /\ \A k \in DOMAIN tasks : tasks[k].frame.ret.kind # "raised"

RECURSIVE BagOfSeq(_)
BagOfSeq(s) ==
    IF s = <<>> THEN EmptyBag ELSE SetToBag({Head(s)}) (+) BagOfSeq(Tail(s))

\* What the pairs give when evaluated one after the other, database-major.
PairResults ==
    [k \in 1..(Len(rnkdbs) * Len(modules)) |->
        module2regulome(rnkdbs[((k - 1) \div Len(modules)) + 1],
                        modules[((k - 1) % Len(modules)) + 1],
                        motif_annotations, RankThreshold, AucThreshold,
                        nes_threshold, avgrcc_sample_frac,
                        DefaultWeightedRecovery, 0).ret]

\* C1: with avgrcc_sample_frac unset, derive_regulomes returns the same
\* multiset of Regulomes for every worker count and every interleaving of
\* the tasks: the multiset of the non-None results of the pairs.
C1_SameMultiset ==
    (BatchEnded /\ avgrcc_sample_frac = NoFrac) =>
        /\ outcome.kind = "returned"
        /\ BagOfSeq(outcome.value) = BagOfSeq(SelectSeq(PairResults, not_none))

\* C2: derive_regulomes creates one task per (database, module) pair,
\* database-major then module-minor, and on completion returns exactly the
\* task results that are not None.
C2_CrossProductFiltered ==
    /\ (entry = "derive_regulomes" /\ pc # "start") =>
          /\ Len(tasks) = Len(rnkdbs) * Len(modules)
          /\ \A i \in DOMAIN rnkdbs : \A j \in DOMAIN modules :
                /\ tasks[(i - 1) * Len(modules) + j].call.db = i
                /\ tasks[(i - 1) * Len(modules) + j].call.gs = j
    /\ BatchEnded =>
          /\ outcome.kind = "returned"
          /\ \A k \in DOMAIN tasks :
                tasks[k].frame.ret # None =>
                    \E n \in DOMAIN outcome.value :
                        outcome.value[n] = tasks[k].frame.ret
          /\ \A n \in DOMAIN outcome.value :
                /\ outcome.value[n] # None
                /\ \E k \in DOMAIN tasks :
                       outcome.value[n] = tasks[k].frame.ret

\* The modules of the input pool that differ from m in their weights only.
Twins(m) ==
    {t \in Modules : /\ t.name = m.name
                     /\ t.transcription_factor = m.transcription_factor
                     /\ t.context = m.context
                     /\ t.nomenclature = m.nomenclature
                     /\ DOMAIN t.gene2weights = DOMAIN m.gene2weights}

\* C6: with weighted_recovery = false the result does not depend on the
\* module's weights, and the leading-edge kernel only receives
\* module.noweights().
C6_WeightIndependent ==
    \A c \in FinishedCalls :
        (~c.weighted_recovery /\ c.avgrcc_sample_frac = NoFrac) =>
            /\ \A t \in Twins(c.module) :
                  module2regulome(c.db, t, motif_annotations, RankThreshold,
                                  AucThreshold, c.nes_threshold, NoFrac,
                                  FALSE, 0).ret = c.frame.ret
            /\ c.frame.ret.kind = "Regulome" =>
                  \A e \in c.frame.ret.gene2weights :
                      \A g \in DOMAIN e.weights : e.weights[g] = 1

\* C7: every task runs with the weighted_recovery, rank_threshold,
\* auc_threshold, nes_threshold and avgrcc_sample_frac the caller passed to
\* derive_regulomes.
C7_ArgumentsForwarded ==
    \A k \in DOMAIN tasks :
        /\ tasks[k].call.weighted_recovery = weighted_recovery
        /\ tasks[k].call.rank_threshold = RankThreshold
        /\ tasks[k].call.auc_threshold = AucThreshold
        /\ tasks[k].call.nes_threshold = nes_threshold
        /\ tasks[k].call.avgrcc_sample_frac = avgrcc_sample_frac

\* A pair with no feature rows, or with all AUC values equal.
Degenerate(fr) ==
    \A i \in DOMAIN fr.aucs : \A j \in DOMAIN fr.aucs : fr.aucs[i] = fr.aucs[j]

\* C8: a pair whose rank table has no feature rows, or whose AUC values are
\* all equal, makes module2regulome return None without raising, and in a
\* batch the other pairs' results are still returned.
C8_DegeneratePairDropped ==
    /\ \A c \in FinishedCalls : Degenerate(c.frame) => c.frame.ret = None
    /\ (BatchEnded /\ \E k \in DOMAIN tasks : Degenerate(tasks[k].frame)) =>
          /\ outcome.kind = "returned"
          /\ \A k \in DOMAIN tasks :
                tasks[k].frame.ret # None =>
                    \E n \in DOMAIN outcome.value :
                        outcome.value[n] = tasks[k].frame.ret

\* C9: for every row of the annotation join the leading-edge kernel gets
\* the recovery curve and the rank row of that row's feature, and the score
\* comes from that feature's NES.
C9_RowsAligned ==
    \A c \in FinishedCalls : \A k \in DOMAIN c.frame.zipped :
        LET z == c.frame.zipped[k]
        IN  /\ c.db.features[z.feature_idx] = z.row.motif_id
            /\ \E i \in DOMAIN c.frame.ness :
                   /\ c.db.features[i] = z.row.motif_id
                   /\ c.frame.regulomes[k].score =
                         score(c.frame.ness[i], z.row.MotifSimilarityQvalue,
                               z.row.OrthologousIdentity)

\* The values of a set of row numbers in increasing order.
RECURSIVE SortedSeq(_)
SortedSeq(S) ==
    IF S = {} THEN <<>>
    ELSE LET m == CHOOSE x \in S : \A y \in S : x <= y
         IN  <<m>> \o SortedSeq(S \ {m})

\* mean + 2 * std of the rows R of a matrix, one value per depth.
BaselineOver(rccs, R) ==
    LET Column(d) == [n \in 1..Cardinality(R) |-> rccs[SortedSeq(R)[n]][d]]
    IN  [d \in 1..RankThreshold |-> AddTwoStd(Mean(Column(d)), Std(Column(d)))]

\* C10: with avgrcc_sample_frac given, the baseline is computed over a set
\* of floor(total_features * avgrcc_sample_frac) rows of the recovery-curve
\* matrix; unset, over all rows.
C10_BaselineOverSample ==
    \A c \in FinishedCalls :
        c.frame.avg2stdrcc.shape # "none" =>
            IF c.avgrcc_sample_frac = NoFrac
            THEN c.frame.avg2stdrcc.v =
                    BaselineOver(c.frame.rccs, DOMAIN c.frame.rccs)
            ELSE \E R \in SUBSET DOMAIN c.frame.rccs :
                    /\ Cardinality(R) = SampleHigh(Len(c.frame.rccs),
                                                   c.avgrcc_sample_frac)
                    /\ c.frame.avg2stdrcc.v = BaselineOver(c.frame.rccs, R)

====
